---- MODULE Spec2Model ----
(***************************************************************************)
(* CompressedSet: a lossy, fixed-size probabilistic set kept in one        *)
(* ArrayBuffer laid out as                                                 *)
(*   [V:4 bits][unused:4 bits][p:4 bits][q:4 bits]                         *)
(*   [p bytes numValues (M)][q bytes bytesPerValue (N)][M * N value bytes] *)
(* with add / remove / contains over string keys (MurmurHash3 double       *)
(* hashing) and a hex-then-base64 encode / decode.                         *)
(*                                                                         *)
(* Representation.  An ArrayBuffer is a sequence of bytes (1-based here,   *)
(* byte i of the code is element i + 1).  A JS string that the code only   *)
(* hashes is a TLA+ string; a string the code indexes (the hex digest,     *)
(* the base64 digest) is a sequence of one-character strings.  A uint32    *)
(* hash is a word: its four bytes, most significant first.  Every other    *)
(* JS number met here is an int32 and is an integer of the model.          *)
(***************************************************************************)
EXTENDS Integers, Sequences, FiniteSets, TLC

VARIABLES
    this,     \* the instance the caller holds (NoInstance while `new` has not succeeded)
    result,   \* the last call: operation, argument, outcome, returned value
    added     \* history: the keys add has stored (HistSpec records them)

vars == <<this, result, added>>

-----------------------------------------------------------------------------
(* Constants (CompressedSet.js)                                            *)

DEFAULT_P == 2
DEFAULT_Q == 1
DEFAULT_NUM_VALUES == 256
DEFAULT_BYTES_PER_VALUE == 3
V_BITS == 4
P_BITS == 4
Q_BITS == 4

\* Math.ceil((V_BITS + P_BITS + Q_BITS) / 8)
MINIMUM_BYTE_LENGTH == (V_BITS + P_BITS + Q_BITS + 7) \div 8

-----------------------------------------------------------------------------
(* int32 arithmetic of the JS bitwise operators                            *)

MinInt32 == (-2147483647) - 1

RECURSIVE AndNat(_, _)
AndNat(a, b) ==
    IF a = 0 \/ b = 0 THEN 0
    ELSE (a % 2) * (b % 2) + 2 * AndNat(a \div 2, b \div 2)

RECURSIVE OrNat(_, _)
OrNat(a, b) ==
    IF a = 0 THEN b
    ELSE IF b = 0 THEN a
    ELSE (IF a % 2 = 1 \/ b % 2 = 1 THEN 1 ELSE 0) + 2 * OrNat(a \div 2, b \div 2)

\* ~a
Not32(a) == (-1) - a

\* a & b on int32 operands
And32(a, b) ==
    CASE a >= 0 /\ b >= 0 -> AndNat(a, b)
      [] a >= 0 /\ b < 0  -> a - AndNat(a, Not32(b))
      [] a < 0 /\ b >= 0  -> b - AndNat(b, Not32(a))
      [] OTHER            -> Not32(OrNat(Not32(a), Not32(b)))

\* a | b on int32 operands
Or32(a, b) == Not32(And32(Not32(a), Not32(b)))

\* a << 1 on an int32 operand
Shl1(a) ==
    LET lo == IF a >= 0 THEN a ELSE (a + 2147483647) + 1   \* the low 31 bits
    IN  IF lo >= 1073741824 THEN (lo - 1073741824) * 2 + MinInt32 ELSE lo * 2

\* a << s: the shift count is taken modulo 32
RECURSIVE ShlN(_, _)
ShlN(a, n) == IF n = 0 THEN a ELSE ShlN(Shl1(a), n - 1)

Shl32(a, s) == ShlN(a, s % 32)

\* a >> s: sign-propagating, the shift count taken modulo 32
Shr32(a, s) == a \div (2 ^ (s % 32))

\* ToInt32 of a uint32 word
ToInt32(w) ==
    (IF w[1] >= 128 THEN w[1] - 256 ELSE w[1]) * 16777216
        + w[2] * 65536 + w[3] * 256 + w[4]

\* an offset beyond every buffer of the model, in either direction
FarOffset == 2 ^ 30

\* a * b for an int32 a and a byte count b, kept exact up to FarOffset and
\* clamped to -FarOffset / FarOffset beyond (no DataView is that long)
MulOffset(a, b) ==
    IF a = 0 \/ b = 0 THEN 0
    ELSE IF b < 0 THEN FarOffset
    ELSE IF a > FarOffset \div b THEN FarOffset
    ELSE IF a < (-FarOffset) \div b THEN -FarOffset
    ELSE a * b

-----------------------------------------------------------------------------
(* Values of the JS caller                                                 *)

Undefined == [type |-> "undefined", val |-> "undefined"]

Str(s) == [type |-> "string", val |-> s]

\* string keys: the tests' 'a' and 'b'; 'em', in the slot of 'a' with another
\* fingerprint; 'aagxooxY', with the very hash of 'a'; 'fz', in the slot next
\* to that of 'a'; 'aal6GcBT', whose fingerprint is the three zero bytes; and
\* the empty string
StringEntries ==
    { Str("a"), Str("b"), Str("em"), Str("aagxooxY"), Str("fz"), Str("aal6GcBT"), Str("") }

\* a boolean, a number, a plain object, an array
NonStringEntries ==
    { [type |-> "boolean", val |-> "true"],
      [type |-> "number",  val |-> "42"],
      [type |-> "object",  val |-> "{}"],
      [type |-> "array",   val |-> "[]"] }

Entries == StringEntries \cup NonStringEntries

\* typeof
TypeOf(x) ==
    CASE x.type = "array"       -> "object"
      [] x.type = "ArrayBuffer" -> "object"
      [] x.type = "null"        -> "object"
      [] OTHER                  -> x.type

-----------------------------------------------------------------------------
(* Hashing: CompressedSet.hash = MurmurHash3(v).result()                   *)

\* MurmurHash3 (x86, 32 bit, seed 0) of the strings the model hashes: the
\* keys of StringEntries and the hex renderings of the hashes
MurmurHash3(s) ==
    CASE s = "a"        -> <<60, 37, 105, 178>>     \* 3c2569b2, slot 178
      [] s = "b"        -> <<149, 222, 126, 3>>     \* 95de7e03, slot 3
      [] s = "em"       -> <<235, 35, 174, 178>>    \* eb23aeb2, slot 178
      [] s = "aagxooxY" -> <<60, 37, 105, 178>>     \* 3c2569b2, slot 178
      [] s = "fz"       -> <<28, 40, 93, 179>>      \* 1c285db3, slot 179
      [] s = "aal6GcBT" -> <<1, 2, 55, 193>>        \* 010237c1, slot 193
      [] s = "3c2569b2" -> <<171, 155, 236, 23>>    \* ab9bec17
      [] s = "95de7e03" -> <<220, 80, 247, 149>>    \* dc50f795
      [] s = "eb23aeb2" -> <<183, 40, 31, 221>>     \* b7281fdd
      [] s = "1c285db3" -> <<200, 182, 199, 255>>   \* c8b6c7ff
      [] s = "10237c1"  -> <<248, 0, 0, 0>>         \* f8000000
      [] s = "0"        -> <<210, 113, 192, 127>>   \* d271c07f

\* MurmurHash3 hashes its argument only when it is a non-empty string; the
\* result of hashing nothing is 0
hash(v) ==
    IF v.type = "string" /\ v.val # "" THEN MurmurHash3(v.val) ELSE <<0, 0, 0, 0>>

HexDigits ==
    <<"0", "1", "2", "3", "4", "5", "6", "7", "8", "9", "a", "b", "c", "d", "e", "f">>

\* the eight hex digits of a word, as numbers
WordNibbles(w) ==
    [i \in 1..8 |-> IF i % 2 = 1 THEN w[(i + 1) \div 2] \div 16 ELSE w[i \div 2] % 16]

RECURSIVE HexFrom(_, _)
HexFrom(ds, i) ==
    IF i > Len(ds) THEN "" ELSE HexDigits[ds[i] + 1] \o HexFrom(ds, i + 1)

\* Number.prototype.toString(16) of a uint32: lower case, no leading zero
ToString16(w) ==
    LET ds    == WordNibbles(w)
        nz    == { i \in 1..8 : ds[i] # 0 }
        first == IF nz = {} THEN 8 ELSE CHOOSE i \in nz : \A j \in nz : i <= j
    IN  Str(HexFrom(ds, first))

-----------------------------------------------------------------------------
(* NibbleView over one byte of the buffer                                  *)

\* getFirst: getUint8(0) >> 4
getFirst(byte) == Shr32(byte, 4)

\* getSecond: getUint8(0) & (255 >> 4)
getSecond(byte) == And32(byte, Shr32(255, 4))

\* setFirst(v): the byte becomes ((v << 4) | getSecond()) & 255
setFirst(byte, v) == And32(Or32(Shl32(v, 4), getSecond(byte)), 255)

\* setSecond dropping the first nibble
setSecond_alone(byte, v) == And32(v, 15)

\* setSecond(v): the byte becomes (getFirst() << 4) | (v & 15)
setSecond(byte, v) == Or32(Shl32(getFirst(byte), 4), And32(v, 15))

-----------------------------------------------------------------------------
(* The instance                                                            *)

NoInstance == [buffer |-> <<>>, config |-> [V |-> 0, p |-> 0, q |-> 0],
               indexMask |-> 0, valueMask |-> 0, live |-> FALSE]

Zeroes(n) == [i \in 1..n |-> 0]

\* getBuffer(): new ArrayBuffer(MINIMUM_BYTE_LENGTH + p + q + M * N), zero-filled
getBuffer ==
    Zeroes(MINIMUM_BYTE_LENGTH + 2 + 1 + DEFAULT_NUM_VALUES * DEFAULT_BYTES_PER_VALUE)

\* _readBytes(view, bytes) for the view of `bytes` bytes at byte offset `off`:
\* acc | (view.getUint8(i) << ((bytes - i - 1) * 8)), from acc = 0
RECURSIVE readFrom(_, _, _, _, _)
readFrom(buffer, off, bytes, i, acc) ==
    IF i >= bytes THEN acc
    ELSE readFrom(buffer, off, bytes, i + 1,
                  Or32(acc, Shl32(buffer[off + i + 1], (bytes - i - 1) * 8)))

_readBytes(buffer, off, bytes) == readFrom(buffer, off, bytes, 0, 0)

\* byte offsets of the three DataViews
numValuesOffset == MINIMUM_BYTE_LENGTH
bytesPerValueOffset(config) == MINIMUM_BYTE_LENGTH + config.p
valuesOffset(config) == MINIMUM_BYTE_LENGTH + config.p + config.q

\* get numValues / get bytesPerValue: read from the buffer on every use
numValues(inst) == _readBytes(inst.buffer, numValuesOffset, inst.config.p)
bytesPerValue(inst) ==
    _readBytes(inst.buffer, bytesPerValueOffset(inst.config), inst.config.q)

\* byteLength of valuesView: the rest of the buffer
valuesLength(inst) == Len(inst.buffer) - valuesOffset(inst.config)

\* Math.pow(2, bytesPerValue * 8) - 1 as `&` reads it (ToInt32): 2^(8n) - 1
\* below 2^32; 2^32 - 1 ... 2^48 - 1 read as -1; from 2^56 on the double is a
\* multiple of 2^32 or Infinity and reads as 0; for n < 0 it lies in (-1, 0)
valueMaskOf(n) ==
    IF n <= 0 THEN 0
    ELSE IF n <= 3 THEN 2 ^ (8 * n) - 1
    ELSE IF n <= 6 THEN -1
    ELSE 0

\* JS truthiness of a constructor argument
Truthy(x) ==
    CASE x.type = "undefined" -> FALSE
      [] x.type = "null"      -> FALSE
      [] x.type = "boolean"   -> x.val = "true"
      [] x.type = "number"    -> x.val \notin {"0", "NaN"}
      [] x.type = "string"    -> x.val # ""
      [] OTHER                -> TRUE

ErrNotArrayBuffer == "TypeError: First argument to CompressedSet constructor must be an ArrayBuffer"
ErrTooShort == "TypeError: ArrayBuffer argument to CompressedSet constructor must have a byteLength of at least 2"
ErrNotString == "TypeError: CompressedSet can only store string values"
ErrRange == "RangeError"

\* x.byteLength
byteLength(x) == Len(x.val)

\* the argument checks with "<=" for "<" in the length test
checkBuffer_atMost(x) ==
    IF Truthy(x)
    THEN IF x.type # "ArrayBuffer" THEN ErrNotArrayBuffer
         ELSE IF byteLength(x) <= MINIMUM_BYTE_LENGTH THEN ErrTooShort
         ELSE "ok"
    ELSE "ok"

\* the argument checks at the head of the constructor: the error thrown, or "ok"
checkBuffer(x) ==
    IF Truthy(x)
    THEN IF x.type # "ArrayBuffer" THEN ErrNotArrayBuffer
         ELSE IF byteLength(x) < MINIMUM_BYTE_LENGTH THEN ErrTooShort
         ELSE "ok"
    ELSE "ok"

\* new CompressedSet(x): [outcome, inst]
constructor(x) ==
    LET given == Truthy(x)
        chk   == checkBuffer(x)
        buf0  == IF given THEN x.val ELSE getBuffer
        \* if (!buffer) pQView.setFirst(DEFAULT_P); pQView.setSecond(DEFAULT_Q)
        buf1  == IF given THEN buf0
                 ELSE [buf0 EXCEPT ![2] = setSecond(setFirst(@, DEFAULT_P), DEFAULT_Q)]
        config == [V |-> getFirst(buf1[1]), p |-> getFirst(buf1[2]), q |-> getSecond(buf1[2])]
        \* new DataView(buffer, offset, length) throws a RangeError when
        \* offset + length exceeds the buffer
        viewsFit == valuesOffset(config) <= Len(buf1)
        \* if (!buffer): version 1, p and q again, numValues (setUint16,
        \* big-endian) and bytesPerValue
        buf2  == IF given THEN buf1
                 ELSE [buf1 EXCEPT
                         ![1] = setFirst(@, 1),
                         ![2] = setSecond(setFirst(@, config.p), config.q),
                         ![numValuesOffset + 1] = DEFAULT_NUM_VALUES \div 256,
                         ![numValuesOffset + 2] = DEFAULT_NUM_VALUES % 256,
                         ![bytesPerValueOffset(config) + 1] = DEFAULT_BYTES_PER_VALUE]
        half  == [buffer |-> buf2, config |-> config, indexMask |-> 0, valueMask |-> 0,
                  live |-> TRUE]
    IN  IF chk # "ok" THEN [outcome |-> chk, inst |-> NoInstance]
        ELSE IF ~viewsFit THEN [outcome |-> ErrRange, inst |-> NoInstance]
        ELSE [outcome |-> "ok",
              inst |-> [half EXCEPT !.indexMask = numValues(half) - 1,
                                    !.valueMask = valueMaskOf(bytesPerValue(half))]]

-----------------------------------------------------------------------------
(* add / remove / contains                                                 *)

\* _check letting numbers through
_check_number(entry) ==
    IF TypeOf(entry) \notin {"string", "number"} THEN ErrNotString ELSE "ok"

\* _check(entry): the error thrown, or "ok"
_check(entry) == IF TypeOf(entry) # "string" THEN ErrNotString ELSE "ok"

\* _kv with the slot index used as the byte offset: no "* bytesPerValue"
_kv_unscaled(inst, entry) ==
    LET h == hash(entry)
    IN  [k |-> And32(ToInt32(h), inst.indexMask),
         v |-> And32(ToInt32(hash(ToString16(h))), inst.valueMask)]

\* _kv(entry): k = (hash & indexMask) * bytesPerValue,
\*             v = hash(hash.toString(16)) & valueMask
_kv(inst, entry) ==
    LET h == hash(entry)
    IN  [k |-> MulOffset(And32(ToInt32(h), inst.indexMask), bytesPerValue(inst)),
         v |-> And32(ToInt32(hash(ToString16(h))), inst.valueMask)]

\* _vs with "i <= bytesPerValue" for "i < bytesPerValue": one byte more
_vs_inclusive(inst, v) ==
    LET n == bytesPerValue(inst)
    IN  [j \in 1..(n + 1) |-> And32(Shr32(v, (n - (j - 1) - 1) * 8), 255)]

\* _vs(v): vs[i] = (v >> ((bytesPerValue - i - 1) * 8)) & 255, i = 0 .. bytesPerValue - 1
_vs(inst, v) ==
    LET n == bytesPerValue(inst)
    IN  [j \in 1..n |-> And32(Shr32(v, (n - (j - 1) - 1) * 8), 255)]

\* valuesView.getUint8(off) / setUint8(off, _) throw a RangeError outside the view
inView(inst, off) == off >= 0 /\ off < valuesLength(inst)

\* valuesView.getUint8(off)
getValue(inst, off) == inst.buffer[valuesOffset(inst.config) + off + 1]

\* the first i in 0 .. n - 1 with k + i outside valuesView, n when there is none
firstOutside(inst, k, n) ==
    LET out == { i \in 0..(n - 1) : ~inView(inst, k + i) }
    IN  IF out = {} THEN n ELSE CHOOSE i \in out : \A j \in out : i <= j

\* bytes.forEach((b, i) => valuesView.setUint8(k + i, b)): the writes before the
\* first one outside the view happen, and that one throws
setValues(inst, k, bytes) ==
    LET n    == Len(bytes)
        stop == firstOutside(inst, k, n)
        base == valuesOffset(inst.config) + k
    IN  [outcome |-> IF stop < n THEN ErrRange ELSE "ok",
         inst |-> [inst EXCEPT !.buffer =
                     [j \in 1..Len(inst.buffer) |->
                        IF j - base >= 1 /\ j - base <= stop
                        THEN bytes[j - base] ELSE inst.buffer[j]]]]

\* contains(entry): _check, then every byte of _vs(v) equals the byte at k + i;
\* `every` stops at the first difference, and a read outside the view throws
contains(inst, entry) ==
    IF _check(entry) # "ok" THEN [outcome |-> _check(entry), ret |-> Undefined]
    ELSE
    LET kv   == _kv(inst, entry)
        vs   == _vs(inst, kv.v)
        n    == Len(vs)
        stop == firstOutside(inst, kv.k, n)
        diff == { i \in 0..(stop - 1) : getValue(inst, kv.k + i) # vs[i + 1] }
    IN  IF diff # {} THEN [outcome |-> "ok", ret |-> FALSE]
        ELSE IF stop < n THEN [outcome |-> ErrRange, ret |-> Undefined]
        ELSE [outcome |-> "ok", ret |-> TRUE]

\* add that sets bits of the slot (old | b) where the code stores b
add_merging(inst, entry) ==
    IF _check(entry) # "ok" THEN [outcome |-> _check(entry), inst |-> inst]
    ELSE LET kv    == _kv(inst, entry)
             vs    == _vs(inst, kv.v)
             stop  == firstOutside(inst, kv.k, Len(vs))
         IN  setValues(inst, kv.k,
                 [i \in 1..Len(vs) |->
                    IF i <= stop THEN Or32(getValue(inst, kv.k + i - 1), vs[i])
                    ELSE vs[i]])

\* add(entry): _check, then the bytes of _vs(v) are written at k, k + 1, ...
add(inst, entry) ==
    IF _check(entry) # "ok" THEN [outcome |-> _check(entry), inst |-> inst]
    ELSE LET kv == _kv(inst, entry)
         IN  setValues(inst, kv.k, _vs(inst, kv.v))

\* remove without the contains(entry) test
remove_unverified(inst, entry) ==
    IF _check(entry) # "ok" THEN [outcome |-> _check(entry), inst |-> inst]
    ELSE LET kv == _kv(inst, entry)
         IN  setValues(inst, kv.k, Zeroes(Len(_vs(inst, kv.v))))

\* remove(entry): _check, then, if contains(entry), zeroes are written at
\* k, k + 1, ...
remove(inst, entry) ==
    IF _check(entry) # "ok" THEN [outcome |-> _check(entry), inst |-> inst]
    ELSE LET c == contains(inst, entry)
         IN  IF c.outcome # "ok" THEN [outcome |-> c.outcome, inst |-> inst]
             ELSE IF c.ret = TRUE
             THEN LET kv == _kv(inst, entry)
                  IN  setValues(inst, kv.k, Zeroes(Len(_vs(inst, kv.v))))
             ELSE [outcome |-> "ok", inst |-> inst]

-----------------------------------------------------------------------------
(* encode / decode                                                         *)

\* Buffer.from(buffer).toString("hex"): two lower-case digits per byte
toHex(buffer) ==
    [i \in 1..(2 * Len(buffer)) |->
        HexDigits[(IF i % 2 = 1 THEN buffer[(i + 1) \div 2] \div 16
                   ELSE buffer[i \div 2] % 16) + 1]]

\* the value of a hex digit
digitValue(c) == (CHOOSE i \in 1..16 : HexDigits[i] = c) - 1

\* the UTF-8 / ASCII byte of a hex digit: '0' is 48, 'a' is 97
charCode(c) == LET d == digitValue(c) IN IF d < 10 THEN 48 + d ELSE 87 + d

\* the ASCII character of a byte; the digests of the model hold hex digits only
\* and every other character reads as "?"
fromCharCode(b) ==
    LET a == b % 128
    IN  IF a >= 48 /\ a <= 57 THEN HexDigits[a - 47]
        ELSE IF a >= 97 /\ a <= 102 THEN HexDigits[a - 86]
        ELSE "?"

\* the URL-safe base64 alphabet
Base64Alphabet ==
    <<"A", "B", "C", "D", "E", "F", "G", "H", "I", "J", "K", "L", "M",
      "N", "O", "P", "Q", "R", "S", "T", "U", "V", "W", "X", "Y", "Z",
      "a", "b", "c", "d", "e", "f", "g", "h", "i", "j", "k", "l", "m",
      "n", "o", "p", "q", "r", "s", "t", "u", "v", "w", "x", "y", "z",
      "0", "1", "2", "3", "4", "5", "6", "7", "8", "9", "-", "_">>

sextetValue(c) == (CHOOSE i \in 1..64 : Base64Alphabet[i] = c) - 1

\* Base64.encode(s) = URLSafeBase64.encode(Buffer.from(s, "utf8")): three bytes
\* to four characters, no padding
Base64_encode(s) ==
    LET n    == Len(s)
        B(i) == IF i < n THEN charCode(s[i + 1]) ELSE 0      \* byte i, from 0
        six(j) == LET g == j \div 4
                  IN  CASE j % 4 = 0 -> B(3 * g) \div 4
                        [] j % 4 = 1 -> (B(3 * g) % 4) * 16 + B(3 * g + 1) \div 16
                        [] j % 4 = 2 -> (B(3 * g + 1) % 16) * 4 + B(3 * g + 2) \div 64
                        [] OTHER     -> B(3 * g + 2) % 64
    IN  [j \in 1..((4 * n + 2) \div 3) |-> Base64Alphabet[six(j - 1) + 1]]

\* Base64.decode(s) = URLSafeBase64.decode(s).toString("ascii")
Base64_decode(s) ==
    LET n    == Len(s)
        S(j) == IF j < n THEN sextetValue(s[j + 1]) ELSE 0   \* sextet j, from 0
        byte(m) == LET g == m \div 3
                   IN  CASE m % 3 = 0 -> S(4 * g) * 4 + S(4 * g + 1) \div 16
                         [] m % 3 = 1 -> (S(4 * g + 1) % 16) * 16 + S(4 * g + 2) \div 4
                         [] OTHER     -> (S(4 * g + 2) % 4) * 64 + S(4 * g + 3)
    IN  [m \in 1..((3 * n) \div 4) |-> fromCharCode(byte(m - 1))]

\* encode(): Base64.encode(Buffer.from(this.buffer).toString("hex"))
encode(inst) == Base64_encode(toHex(inst.buffer))

\* parseInt(c1 + c2, 16) of two hex digits
parseInt16(c1, c2) == 16 * digitValue(c1) + digitValue(c2)

\* the loop of decode over a zero-filled ArrayBuffer of byteLength bytes:
\*   for (let i = 0; i < byteLength; i += 2)
\*     view.setUint8(i, parseInt(digest[i] + digest[i + 1], 16))
decodeBytes(digest, byteLen) ==
    [j \in 1..byteLen |->
        IF (j - 1) % 2 = 0 THEN parseInt16(digest[(j - 1) + 1], digest[(j - 1) + 2])
        ELSE 0]

\* CompressedSet.decode(encodedDigest), for a digest with an even number of hex
\* digits (every digest encode() returns): [outcome, inst]
decode(encodedDigest) ==
    LET digest     == Base64_decode(encodedDigest)
        byteLen    == Len(digest) \div 2
        arrayBuf   == decodeBytes(digest, byteLen)
    IN  constructor([type |-> "ArrayBuffer", val |-> arrayBuf])

-----------------------------------------------------------------------------
(* The caller                                                              *)

NoCall == [op |-> "none", arg |-> Undefined, outcome |-> "ok", ret |-> Undefined]

Called(op, arg, outcome, ret) ==
    [op |-> op, arg |-> arg, outcome |-> outcome, ret |-> ret]

\* set = new CompressedSet(arg); a constructor that throws yields no instance
New(arg) ==
    /\ ~this.live
    /\ LET r == constructor(arg)
       IN  /\ this' = r.inst
           /\ result' = Called("new", arg, r.outcome,
                               IF r.outcome = "ok" THEN "instance" ELSE Undefined)

\* set.add(entry)
Add(entry) ==
    /\ this.live
    /\ LET r == add(this, entry)
       IN  /\ this' = r.inst
           /\ result' = Called("add", entry, r.outcome,
                               IF r.outcome = "ok" THEN "this" ELSE Undefined)

\* set.remove(entry)
Remove(entry) ==
    /\ this.live
    /\ LET r == remove(this, entry)
       IN  /\ this' = r.inst
           /\ result' = Called("remove", entry, r.outcome,
                               IF r.outcome = "ok" THEN "this" ELSE Undefined)

\* set.contains(entry)
Contains(entry) ==
    /\ this.live
    /\ LET r == contains(this, entry)
       IN  result' = Called("contains", entry, r.outcome, r.ret)
    /\ UNCHANGED this

\* digest = set.encode()
Encode ==
    /\ this.live
    /\ result' = Called("encode", Undefined, "ok", encode(this))
    /\ UNCHANGED this

\* decoded = CompressedSet.decode(digest), digest being what the call just
\* before returned
Decode ==
    /\ result.op = "encode"
    /\ LET r == decode(result.ret)
       IN  result' = Called("decode", Undefined, r.outcome, r.inst)
    /\ UNCHANGED this

\* const set = new CompressedSet()
Init ==
    /\ this = constructor(Undefined).inst
    /\ result = Called("new", Undefined, constructor(Undefined).outcome, "instance")
    /\ added = {}

Next ==
    \/ \E entry \in Entries : Add(entry) /\ UNCHANGED added
    \/ \E entry \in Entries : Remove(entry) /\ UNCHANGED added
    \/ \E entry \in Entries : Contains(entry) /\ UNCHANGED added
    \/ Encode /\ UNCHANGED added
    \/ Decode /\ UNCHANGED added

\* a fresh default instance and every call on it
Spec == Init /\ [][Next]_vars

\* the keys of the recorded runs: three of one slot (two of them with one
\* fingerprint), one of the next slot, one whose fingerprint is zero, and a
\* value that is no string
HistEntries ==
    { Str("a"), Str("em"), Str("aagxooxY"), Str("fz"), Str("aal6GcBT"),
      [type |-> "number", val |-> "42"] }

\* add and remove on a fresh default instance, with the keys stored so far
HistNext ==
    \/ \E entry \in HistEntries :
          /\ Add(entry)
          /\ added' = IF result'.outcome = "ok" THEN added \cup {entry} ELSE added
    \/ \E entry \in HistEntries : Remove(entry) /\ UNCHANGED added

HistSpec == Init /\ [][HistNext]_vars

-----------------------------------------------------------------------------
(* Construction from an argument                                           *)

\* the longest ArrayBuffer handed to the constructor
MaxBufferLength == 5

\* the values of byte i - 1 of those ArrayBuffers: versions 0 and 1; p and q
\* of 0, 1 and 2; small sizes and values
ByteChoices(i) ==
    CASE i = 1 -> {0, 16}
      [] i = 2 -> {0, 1, 16, 17, 33}
      [] OTHER -> {0, 1, 2}

RECURSIVE BytesOfLength(_)
BytesOfLength(n) ==
    IF n = 0 THEN {<<>>}
    ELSE { Append(s, b) : s \in BytesOfLength(n - 1), b \in ByteChoices(n) }

ArrayBuffers ==
    { [type |-> "ArrayBuffer", val |-> s] :
        s \in UNION { BytesOfLength(n) : n \in 0..MaxBufferLength } }

\* arguments that are no ArrayBuffer: null, false, 0, NaN, '' (falsy), and
\* true, a number, a string, a plain object, an array (truthy)
NonBuffers ==
    { [type |-> "null",    val |-> "null"],
      [type |-> "boolean", val |-> "false"],
      [type |-> "number",  val |-> "0"],
      [type |-> "number",  val |-> "NaN"],
      [type |-> "string",  val |-> ""],
      [type |-> "boolean", val |-> "true"],
      [type |-> "number",  val |-> "42"],
      [type |-> "string",  val |-> "abc"],
      [type |-> "object",  val |-> "{}"],
      [type |-> "array",   val |-> "[]"] }

CtorArgs == {Undefined} \cup NonBuffers \cup ArrayBuffers

CtorInit ==
    /\ this = NoInstance
    /\ result = NoCall
    /\ added = {}

CtorNext ==
    \/ \E arg \in CtorArgs : New(arg) /\ UNCHANGED added
    \/ \E entry \in Entries : Add(entry) /\ UNCHANGED added
    \/ \E entry \in Entries : Remove(entry) /\ UNCHANGED added
    \/ \E entry \in Entries : Contains(entry) /\ UNCHANGED added

\* new CompressedSet(arg) for any argument, and every call on what it yields
CtorSpec == CtorInit /\ [][CtorNext]_vars

-----------------------------------------------------------------------------
(* Properties                                                              *)

\* the slot index of a key in the caller's instance: hash & indexMask
slotIndex(x) == And32(ToInt32(hash(x)), this.indexMask)

\* the fingerprint of a key: the low bytesPerValue bytes of the second hash,
\* most significant first
fingerprint(x) ==
    LET w == hash(ToString16(hash(x)))
        n == bytesPerValue(this)
    IN  [j \in 1..n |-> w[4 - n + j]]

isMember(inst, x) == contains(inst, x).ret = TRUE

MutatingOps == {"add", "remove"}
KeyOps == {"add", "remove", "contains"}

\* C1: decode(S.encode()).contains(x) equals S.contains(x) for every string
\* key x, S being any set reached from a fresh default instance.
C1_DecodedContainsAgrees ==
    (result.op = "decode" /\ result.outcome = "ok")
        => \A x \in StringEntries :
              contains(result.ret, x).ret = contains(this, x).ret

\* C2: decode(S.encode()) owns a buffer as long as S's, whose byte i is the
\* byte parsed from hex digits 2i and 2i + 1 of the digest, and encodes to
\* the digest S encodes to.
C2_DecodedBufferRoundTrips ==
    (result.op = "decode" /\ result.outcome = "ok")
        => LET digest == Base64_decode(encode(this))
           IN  /\ Len(result.ret.buffer) = Len(this.buffer)
               /\ \A i \in 0..(Len(this.buffer) - 1) :
                     result.ret.buffer[i + 1]
                        = parseInt16(digest[2 * i + 1], digest[2 * i + 2])
               /\ encode(result.ret) = encode(this)

\* C3: right after add(x), contains(x) is true, and a key that is a member
\* stays one across add / remove of a key that maps to another slot.
C3_AddedKeyIsMember ==
    /\ []((result.op = "add" /\ result.outcome = "ok") => isMember(this, result.arg))
    /\ [][\A x \in StringEntries :
            (/\ isMember(this, x)
             /\ result'.op \in MutatingOps
             /\ TypeOf(result'.arg) = "string"
             /\ slotIndex(result'.arg) # slotIndex(x))
                => isMember(this', x)]_vars

\* add('fz') has just followed add('a') and add('b'), three keys of three
\* slots (two of them neighbours), and all three are members
C3_Witness ==
    /\ result.op = "add" /\ result.arg = Str("fz") /\ result.outcome = "ok"
    /\ slotIndex(Str("fz")) = slotIndex(Str("a")) + 1
    /\ isMember(this, Str("a")) /\ isMember(this, Str("b")) /\ isMember(this, Str("fz"))

\* C4: a freshly constructed default instance answers contains(x) = false
\* for every string key x.
C4_FreshContainsNothing ==
    result.op = "new" => \A x \in StringEntries : contains(this, x).ret = FALSE

\* C5: after add(x) immediately followed by remove(x), contains(x) is false.
C5_RemovedKeyIsAbsent ==
    [][\A x \in StringEntries :
         (/\ result.op = "add" /\ result.arg = x /\ result.outcome = "ok"
          /\ result'.op = "remove" /\ result'.arg = x)
            => contains(this', x).ret = FALSE]_vars

\* C6 as claimed: for distinct keys x and y of one slot, once add(y) has
\* written the slot, remove(x) leaves every byte unchanged and contains(y)
\* is still true.
C6_RemoveSparesOtherKey ==
    [][\A x, y \in StringEntries :
         (/\ x # y /\ slotIndex(x) = slotIndex(y)
          /\ result.op = "add" /\ result.arg = y /\ result.outcome = "ok"
          /\ result'.op = "remove" /\ result'.arg = x)
            => (this'.buffer = this.buffer /\ isMember(this', y))]_vars

\* C6 amended: the same for distinct keys x and y of one slot whose
\* fingerprints differ.
C6_RemoveSparesOtherFingerprint ==
    [][\A x, y \in StringEntries :
         (/\ x # y /\ slotIndex(x) = slotIndex(y)
          /\ fingerprint(x) # fingerprint(y)
          /\ result.op = "add" /\ result.arg = y /\ result.outcome = "ok"
          /\ result'.op = "remove" /\ result'.arg = x)
            => (/\ result'.outcome = "ok"
                /\ this'.buffer = this.buffer
                /\ isMember(this', y))]_vars

\* remove('a') has returned and the slot 'a' shares with 'em' still holds
\* the fingerprint of 'em'
C6_Witness ==
    /\ result.op = "remove" /\ result.arg = Str("a") /\ result.outcome = "ok"
    /\ slotIndex(Str("a")) = slotIndex(Str("em"))
    /\ fingerprint(Str("a")) # fingerprint(Str("em"))
    /\ isMember(this, Str("em"))

\* C7: add, remove and contains called with a non-string fail with the
\* input-type error and leave every byte of the buffer unchanged, in every
\* state of every instance.
C7_NonStringRejected ==
    [][(result'.op \in KeyOps /\ result'.arg.type # "string")
          => (/\ result'.outcome = ErrNotString
              /\ this'.buffer = this.buffer)]_vars

\* add(42) has just thrown on a fresh-built instance that holds 'a'
C7_Witness ==
    /\ result.op = "add" /\ result.arg.type = "number"
    /\ result.outcome = ErrNotString
    /\ Len(this.buffer) = 773 /\ isMember(this, Str("a"))

\* C8: new CompressedSet(x) with a supplied x that is no ArrayBuffer fails
\* with the input-type error and yields no instance.
C8_NonBufferRejected ==
    (result.op = "new" /\ result.arg.type \notin {"undefined", "ArrayBuffer"})
        => (result.outcome = ErrNotArrayBuffer /\ ~this.live)

\* C9: a fresh default instance owns 773 bytes: 0x10 (version 1, unused 0),
\* 0x21 (p = 2, q = 1), 0x01 0x00 (numValues 256), 0x03 (bytesPerValue 3) and
\* 768 zero bytes.
C9_DefaultLayout ==
    (result.op = "new" /\ result.arg = Undefined)
        => /\ result.outcome = "ok" /\ this.live
           /\ Len(this.buffer) = 2 + 2 + 1 + 256 * 3
           /\ this.buffer[1] \div 16 = 1 /\ this.buffer[1] % 16 = 0
           /\ this.buffer[2] \div 16 = 2 /\ this.buffer[2] % 16 = 1
           /\ this.buffer[3] * 256 + this.buffer[4] = 256
           /\ this.buffer[5] = 3
           /\ \A i \in 6..773 : this.buffer[i] = 0

C9_Witness ==
    result.op = "new" /\ result.arg = Undefined /\ this.live /\ Len(this.buffer) = 773

\* the p and q nibbles of an ArrayBuffer argument of two bytes or more
declaredP(arg) == arg.val[2] \div 16
declaredQ(arg) == arg.val[2] % 16

\* C10 as claimed: an ArrayBuffer shorter than 2 bytes fails with the
\* too-short error, and every ArrayBuffer of 2 bytes or more is accepted.
C10_EveryLongEnoughBufferAccepted ==
    (result.op = "new" /\ result.arg.type = "ArrayBuffer")
        => IF Len(result.arg.val) < 2
           THEN result.outcome = ErrTooShort /\ ~this.live
           ELSE result.outcome = "ok" /\ this.live

\* C10 amended: shorter than 2 bytes, the too-short error; otherwise shorter
\* than 2 + p + q bytes, a RangeError; otherwise accepted, the instance owning
\* the very bytes given, whatever numValues and bytesPerValue they declare.
C10_BufferAcceptedIffViewsFit ==
    (result.op = "new" /\ result.arg.type = "ArrayBuffer")
        => CASE Len(result.arg.val) < 2
                  -> result.outcome = ErrTooShort /\ ~this.live
             [] Len(result.arg.val) >= 2
                  /\ Len(result.arg.val) < 2 + declaredP(result.arg) + declaredQ(result.arg)
                  -> result.outcome = ErrRange /\ ~this.live
             [] OTHER
                  -> /\ result.outcome = "ok" /\ this.live
                     /\ this.buffer = result.arg.val

\* an accepted ArrayBuffer that declares more value bytes than it holds
C10_Witness ==
    /\ result.op = "new" /\ result.arg.type = "ArrayBuffer" /\ result.outcome = "ok"
    /\ this.live
    /\ numValues(this) * bytesPerValue(this) > valuesLength(this)

\* C11: on every instance the constructor yields, a call of add, remove or
\* contains that fails leaves the buffer byte for byte as it was: none fails
\* after having written some of a slot's bytes.
C11_FailedCallWritesNothing ==
    [][(result'.op \in KeyOps /\ result'.outcome # "ok")
          => this'.buffer = this.buffer]_vars

\* the places (1-based) of the bytes of slot i in the caller's buffer
slotBytes(i) ==
    LET first == 2 + (this.buffer[2] \div 16) + (this.buffer[2] % 16)
                   + i * bytesPerValue(this)
    IN  (first + 1)..(first + bytesPerValue(this))

\* C12: on an instance reached from a fresh default one, add(x) and remove(x)
\* change at most the bytes of the slot of index hash(x) & indexMask, which
\* lies inside the value region; the header, the two size fields, every other
\* slot and the length of the buffer stay as they are; a call that is rejected,
\* contains, encode and decode change nothing.
C12_OnlyTheSlotOfTheKeyChanges ==
    [][/\ this'.config = this.config
       /\ this'.indexMask = this.indexMask
       /\ this'.valueMask = this.valueMask
       /\ Len(this'.buffer) = Len(this.buffer)
       /\ IF result'.op \in MutatingOps /\ result'.arg.type = "string"
          THEN LET i == slotIndex(result'.arg)
                   slot == slotBytes(i)
               IN  /\ i >= 0 /\ i < numValues(this)
                   /\ slot \subseteq 6..Len(this.buffer)
                   /\ \A j \in 1..Len(this.buffer) \ slot :
                         this'.buffer[j] = this.buffer[j]
          ELSE this'.buffer = this.buffer]_vars

\* add('a') has returned with 'a' in its slot, and the members 'fz' (the next
\* slot) and 'b' are still there, behind the header 10 21 01 00 03
C12_Witness ==
    /\ result.op = "add" /\ result.arg = Str("a") /\ result.outcome = "ok"
    /\ \A j \in slotBytes(slotIndex(Str("a"))) :
          this.buffer[j] = fingerprint(Str("a"))[j - (5 + 3 * 178)]
    /\ isMember(this, Str("fz")) /\ isMember(this, Str("b"))
    /\ SubSeq(this.buffer, 1, 5) = <<16, 33, 1, 0, 3>>

\* the bytes of slot i
slotValue(i) ==
    LET slot == slotBytes(i)
        low  == CHOOSE j \in slot : \A l \in slot : j <= l
    IN  SubSeq(this.buffer, low, low + bytesPerValue(this) - 1)

\* C13: after any calls of add and remove on a fresh default instance, every
\* slot i is all zero or holds the fingerprint (bytesPerValue bytes, most
\* significant first) of a key that add has stored before and whose slot
\* index hash & indexMask is i.
C13_SlotIsZeroOrAddedFingerprint ==
    \A i \in 0..(numValues(this) - 1) :
        LET held == slotValue(i)
        IN  \/ \A j \in 1..Len(held) : held[j] = 0
            \/ \E x \in added : slotIndex(x) = i /\ held = fingerprint(x)

\* 'a' then 'em' (both slot 178), 'fz' and 'aal6GcBT' were added and 'fz'
\* removed again: slot 178 holds the fingerprint of 'em', slots 179 and 193
\* are zero
C13_Witness ==
    /\ result.op = "remove" /\ result.arg = Str("fz")
    /\ {Str("a"), Str("em"), Str("fz"), Str("aal6GcBT")} \subseteq added
    /\ slotValue(178) = fingerprint(Str("em"))
    /\ slotValue(179) = <<0, 0, 0>>
    /\ slotValue(193) = <<0, 0, 0>>

====
